---- MODULE Spec2Model ----
(***************************************************************************)
(* HetrixTools server monitoring agent (hetrixtools_agent.py, 1.5.9).      *)
(*                                                                         *)
(* One run of the script is modelled statement block by statement block:  *)
(* start-up, the sampling loop (one action per iteration), the whole-     *)
(* window disk IOPS, the averages, the snapshot collectors, the report    *)
(* assembly, the save to the agent log and the HTTP post.  The files the  *)
(* script leaves on disk survive from one run to the next.                *)
(*                                                                         *)
(* Text is modelled as sequences: a command's stdout is the sequence of   *)
(* its tokens (<<>> is run_command's "" on failure), a file is the        *)
(* sequence of its lines or characters.  Python exceptions that nothing   *)
(* catches end the run in pc = "crashed" with the exception in err and    *)
(* the raising line in err_line.                                          *)
(***************************************************************************)
EXTENDS Integers, Sequences, FiniteSets, TLC

\* ------------------------------------------------------------------ bounds
\* Largest number of loop iterations (RUNTIME // COLLECT_EVERY_X_SECONDS)
\* among the settings explored.
MaxTicks == 2
\* Number of consecutive runs of the script (cron firings) explored.
MaxRuns == 2

\* --------------------------------------------------------- Python helpers
\* int(a / b) for b # 0: float division, then truncation toward zero.
TruncDiv(a, b) ==
    LET abs(v) == IF v < 0 THEN -v ELSE v
        q == abs(a) \div abs(b)
    IN IF (a < 0) = (b < 0) THEN q ELSE -q

\* A Python dict with no keys.
EmptyDict == [k \in {} |-> 0]

\* d[k] = v
Put(d, k, v) == [x \in (DOMAIN d) \cup {k} |-> IF x = k THEN v ELSE d[x]]

\* time.strftime('%M') at wall-clock second t: the two digits of the minute.
StrfMinute(t) ==
    LET m == (t \div 60) % 60 IN <<m \div 10, m % 10>>

\* str.lstrip('0') on a string of digits.
RECURSIVE LStripZero(_)
LStripZero(s) ==
    IF s = <<>> THEN s
    ELSE IF Head(s) = 0 THEN LStripZero(Tail(s)) ELSE s

\* int(s) for a non-empty string of decimal digits.
RECURSIVE IntOfDigits(_)
IntOfDigits(s) ==
    IF s = <<>> THEN 0
    ELSE IntOfDigits(SubSeq(s, 1, Len(s) - 1)) * 10 + s[Len(s)]

\* int(time.strftime('%M').lstrip('0') or 0)
ReadMinute(t) ==
    LET s == LStripZero(StrfMinute(t))
    IN IF s = <<>> THEN 0 ELSE IntOfDigits(s)

\* ------------------------------------------------------------ environment
\* Wall-clock seconds at which a run may start: 58:57, 59:57 and (an hour
\* later) 00:10.  Only the minute of the hour and differences are used.
StartClocks == {58 * 60 + 57, 59 * 60 + 57, 60 * 60 + 10}

\* Seconds the wall clock shows to have passed over one iteration, in which
\* vmstat sleeps COLLECT_EVERY_X_SECONDS: on time, one second late, or none,
\* the clock having been stepped back meanwhile (time.time() is not
\* monotonic).
ElapsedFor(every) == {0, every, every + 1}

\* stdout of "vmstat N 2 | tail -1", split(): 17 columns
\* r b swpd free buff cache si so bi bo in cs us sy id wa st, or nothing.
VmstatOutputs ==
    { <<>>,
      <<1, 0, 0, 60, 20, 20, 0, 0, 0, 0, 9, 9, 5, 5, 90, 0, 0>>,
      <<2, 1, 0, 20, 10, 10, 0, 0, 7, 7, 9, 9, 30, 20, 40, 10, 0>> }

\* stdout of "grep MemTotal /proc/meminfo | awk '{print $2}'".
MemTotalOutputs == { <<>>, <<200>> }

\* /proc/net/dev: the lines that carry an interface, as name, received
\* bytes (column 1) and transmitted bytes (column 9).
NetDevOutputs ==
    { << [name |-> "eth0", rx |-> 1000, tx |-> 70] >>,
      << [name |-> "eth1", rx |-> 400, tx |-> 900],
         [name |-> "eth0", rx |-> 1500, tx |-> 80] >> }

\* stdout of the "ip a | grep BROADCAST | grep 'state UP' ..." detection.
IpOutputs == { <<>>, <<"eth0">> }

\* stdout of "netstat -ntu | awk '{print $4}'" after strip(): the port at
\* the end of each line's local address.
NetstatOutputs == { <<22, 80>>, <<80, 80, 22>> }

\* /proc/diskstats: name, sectors read (column 5), sectors written (column 9).
DiskstatsOutputs ==
    { <<>>,
      << [name |-> "sda1", rd |-> 100, wr |-> 40],
         [name |-> "sda3", rd |-> 10, wr |-> 0] >> }

\* ---------------------------------------------------------------- settings
\* The Settings block: the values an operator may edit.
CollectorsOff ==
    [CHECK_SERVICES |-> <<>>, CHECK_SOFT_RAID |-> 0, CHECK_DRIVE_HEALTH |-> 0,
     RUNNING_PROCESSES |-> 0]

CollectorsOn ==
    [CHECK_SERVICES |-> <<"ssh">>, CHECK_SOFT_RAID |-> 1, CHECK_DRIVE_HEALTH |-> 1,
     RUNNING_PROCESSES |-> 1]

\* Interfaces auto-detected, no ports watched, the default 3 second interval.
AutoSettings ==
    [RUNTIME |-> 3 * MaxTicks + 1, COLLECT_EVERY_X_SECONDS |-> 3,
     NETWORK_INTERFACES |-> <<>>, CONNECTION_PORTS |-> <<>>] @@ CollectorsOff

\* Two interfaces and one port named in the settings, a 2 second interval.
NamedSettings ==
    [RUNTIME |-> 2 * MaxTicks, COLLECT_EVERY_X_SECONDS |-> 2,
     NETWORK_INTERFACES |-> <<"eth0", "eth1">>, CONNECTION_PORTS |-> <<80>>]
        @@ CollectorsOff

\* Every optional collector switched on, a one-iteration window.
FullSettings ==
    [RUNTIME |-> 3, COLLECT_EVERY_X_SECONDS |-> 3,
     NETWORK_INTERFACES |-> <<"eth0">>, CONNECTION_PORTS |-> <<>>] @@ CollectorsOn

SettingsChoices == {AutoSettings, NamedSettings, FullSettings}

\* Agent Version and Server ID.
VERSION == "1.5.9"
SID == "SIDPLACEHOLDER"

\* Hardcoded mount point -> device table.
v_disks == << [mount_point |-> "/", disk |-> "sda1"],
              [mount_point |-> "/volume1", disk |-> "sda3"] >>

VARIABLES
    cfg,            \* the Settings block
    now,            \* the wall clock, in seconds
    run,            \* index of the current run of the script
    pc,             \* position of the run in the script
    err,            \* the uncaught exception that ended the run, or ""
    err_line,       \* the source line that raised it, or 0
    run_times, start_time, t_time_diff, time_diff, M,
    network_interfaces_array, net_dev, a_rx, a_tx, t_rx, t_tx,
    connections, netstat_output,
    iops_read, iops_write,
    t_cpu, t_iow, t_ram, X, vmstat_parts,
    iops_str, cpu_avg, iow_avg, ram_avg, swap_usage, disks_data, diski_data,
    nics_str, conn_str, service_status_string, raid_str, dh_str, rps1, rps2,
    post_data, post_bytes,
    running_proc_file,  \* SCRIPT_PATH/running_proc.txt
    agent_log_file,     \* SCRIPT_PATH/hetrixtools_agent.log
    received,       \* what the collector at sm.hetrixtools.net got from this run
    calls,          \* history: how often each snapshot collector ran in this run
    completed,      \* history: runs that reached the end of the script
    handed_on,      \* history: curr_procs of the latest such run
    ticks,          \* history: iterations of the loop body that ran to the end
    rolled,         \* history: iteration in which the minute first differed from M
    last_read,      \* history: wall clock of the latest /proc/net/dev read
    port_ticks      \* history: per port, the sum of the counts taken in the loop

clockVars == <<now, run, cfg>>
errVars == <<err, err_line>>
timeVars == <<run_times, start_time, t_time_diff, time_diff, M>>
nicVars == <<network_interfaces_array, net_dev, a_rx, a_tx, t_rx, t_tx>>
portVars == <<connections, netstat_output>>
iopsVars == <<iops_read, iops_write>>
cpuVars == <<t_cpu, t_iow, t_ram, X, vmstat_parts>>
histVars == <<ticks, rolled, last_read, port_ticks>>
avgVars == <<cpu_avg, iow_avg, ram_avg>>
snapVars == <<swap_usage, disks_data, diski_data, service_status_string,
              raid_str, dh_str, rps1, rps2, calls>>
strVars == <<iops_str, nics_str, conn_str>>
sendVars == <<post_data, post_bytes, agent_log_file, received>>
runsVars == <<completed, handed_on>>
loopVars == <<timeVars, nicVars, portVars, iopsVars, cpuVars, histVars>>
vars == <<clockVars, pc, errVars, loopVars, avgVars, snapVars, strVars,
          sendVars, running_proc_file, runsVars>>

\* ------------------------------------------------------------------ lookup
\* Index of the first line of a counter file that names `name`, 0 if none:
\*   for line in text.split('\n'): if name in line: ...; break
FirstLine(lines, name) ==
    IF \E i \in 1..Len(lines) : lines[i].name = name
    THEN CHOOSE i \in 1..Len(lines) :
            /\ lines[i].name = name
            /\ \A j \in 1..(i - 1) : lines[j].name # name
    ELSE 0

\* netstat_output.count(f':{c_port}\n'): the lines that end in the port and
\* are followed by a newline; strip() left the last line without one.
CountPort(out, c_port) ==
    Cardinality({i \in 1..(Len(out) - 1) : out[i] = c_port})

\* --------------------------------------------------------------- start-up
\* The per-interface dicts after the initialisation loop over the interfaces.
RECURSIVE InitNics(_, _, _)
InitNics(nics, lines, st) ==
    IF nics = <<>> THEN st
    ELSE LET nic == Head(nics)
             i == FirstLine(lines, nic)
             nx == IF i = 0 THEN st
                   ELSE [a_rx |-> Put(st.a_rx, nic, lines[i].rx),
                         a_tx |-> Put(st.a_tx, nic, lines[i].tx),
                         t_rx |-> Put(st.t_rx, nic, 0),
                         t_tx |-> Put(st.t_tx, nic, 0)]
         IN InitNics(Tail(nics), lines, nx)

\* connections[c_port] = count, for every configured port.
RECURSIVE InitConnections(_, _, _)
InitConnections(ports, out, conn) ==
    IF ports = <<>> THEN conn
    ELSE InitConnections(Tail(ports), out,
                         Put(conn, Head(ports), CountPort(out, Head(ports))))

\* iops_read / iops_write for every disk of v_disks found in /proc/diskstats.
RECURSIVE InitIops(_, _, _)
InitIops(disks, lines, st) ==
    IF disks = <<>> THEN st
    ELSE LET i == FirstLine(lines, Head(disks).disk)
             nx == IF i = 0 THEN st
                   ELSE [rd |-> Put(st.rd, Head(disks).mount_point, lines[i].rd),
                         wr |-> Put(st.wr, Head(disks).mount_point, lines[i].wr)]
         IN InitIops(Tail(disks), lines, nx)

\* Lines 149-224: everything before the sampling loop.
StartRun ==
    /\ pc = "idle"
    /\ \E ip \in IF cfg.NETWORK_INTERFACES # <<>> THEN {<<>>} ELSE IpOutputs,
          nd \in NetDevOutputs,
          ns \in IF cfg.CONNECTION_PORTS # <<>>
                 THEN NetstatOutputs ELSE {netstat_output},
          ds \in DiskstatsOutputs :
        LET rt == cfg.RUNTIME \div cfg.COLLECT_EVERY_X_SECONDS
            nics == IF cfg.NETWORK_INTERFACES # <<>>
                    THEN cfg.NETWORK_INTERFACES ELSE ip
            nst == InitNics(nics, nd,
                            [a_rx |-> EmptyDict, a_tx |-> EmptyDict,
                             t_rx |-> EmptyDict, t_tx |-> EmptyDict])
            watch == cfg.CONNECTION_PORTS # <<>>
            io == InitIops(v_disks, ds, [rd |-> EmptyDict, wr |-> EmptyDict])
        IN  /\ run_times' = rt
            /\ start_time' = now
            /\ t_time_diff' = 0
            /\ time_diff' = 0
            /\ M' = ReadMinute(now)
            /\ network_interfaces_array' = nics
            /\ net_dev' = nd
            /\ a_rx' = nst.a_rx /\ a_tx' = nst.a_tx
            /\ t_rx' = nst.t_rx /\ t_tx' = nst.t_tx
            /\ netstat_output' = ns
            /\ connections' = IF watch
                              THEN InitConnections(cfg.CONNECTION_PORTS, ns, EmptyDict)
                              ELSE EmptyDict
            /\ iops_read' = io.rd /\ iops_write' = io.wr
            /\ t_cpu' = 0 /\ t_iow' = 0 /\ t_ram' = 0
            /\ X' = 0
            /\ vmstat_parts' = <<>>
            /\ ticks' = 0 /\ rolled' = 0 /\ last_read' = now
            /\ port_ticks' = [p \in DOMAIN connections' |-> 0]
            /\ pc' = IF rt >= 1 THEN "loop" ELSE "closed"
    /\ UNCHANGED <<clockVars, errVars, avgVars, snapVars, strVars, sendVars,
                   running_proc_file, runsVars>>

\* ---------------------------------------------------------- sampling loop
\* The loop over the interfaces inside one iteration (lines 253-267).
RECURSIVE TickNics(_, _, _, _)
TickNics(nics, lines, td, st) ==
    IF nics = <<>> \/ st.err # "" THEN st
    ELSE LET nic == Head(nics)
             i == FirstLine(lines, nic)
             nx == IF i = 0 THEN st
                   ELSE IF nic \notin DOMAIN st.a_rx
                        THEN [st EXCEPT !.err = "KeyError"]
                   ELSE IF td = 0
                        THEN [st EXCEPT !.err = "ZeroDivisionError"]
                   ELSE LET rx == TruncDiv(lines[i].rx - st.a_rx[nic], td)
                            tx == TruncDiv(lines[i].tx - st.a_tx[nic], td)
                        IN [st EXCEPT !.a_rx[nic] = lines[i].rx,
                                      !.t_rx[nic] = @ + rx,
                                      !.a_tx[nic] = lines[i].tx,
                                      !.t_tx[nic] = @ + tx]
         IN TickNics(Tail(nics), lines, td, nx)

\* connections[c_port] += count, for every configured port (lines 272-274).
RECURSIVE TickConnections(_, _, _)
TickConnections(ports, out, conn) ==
    IF ports = <<>> THEN conn
    ELSE TickConnections(Tail(ports), out,
            [conn EXCEPT ![Head(ports)] = @ + CountPort(out, Head(ports))])

\* start_time left as the window start.
StartTimeKept(end_time) == start_time

\* The start_time the next iteration measures from (line 250).
NextStartTime(end_time) == end_time

\* The loop ends after this iteration when the minute changed (line 278).
MinuteChanged(MM) == MM > M

Crash(e, line) ==
    /\ pc' = "crashed"
    /\ err' = e
    /\ err_line' = line

\* Lines 226-279: one iteration of the collect data loop.
Tick ==
    /\ pc = "loop"
    /\ UNCHANGED <<avgVars, snapVars, strVars, sendVars, running_proc_file,
                   runsVars>>
    /\ X' = X + 1
    /\ \E v \in VmstatOutputs : vmstat_parts' = v
    /\ IF Len(vmstat_parts') < 15
       THEN \* vmstat_parts[14]
            /\ Crash("IndexError", 232)
            /\ UNCHANGED <<clockVars, timeVars, nicVars, portVars, iopsVars,
                           t_cpu, t_iow, t_ram, histVars>>
       ELSE
       \E m \in MemTotalOutputs :
       LET cpu == 100 - vmstat_parts'[15]
           iow == vmstat_parts'[16]
           a_ram == vmstat_parts'[4] + vmstat_parts'[5] + vmstat_parts'[6]
       IN
       /\ t_cpu' = t_cpu + cpu
       /\ t_iow' = t_iow + iow
       /\ IF m = <<>>
          THEN \* int("")
               /\ Crash("ValueError", 241)
               /\ UNCHANGED <<clockVars, timeVars, nicVars, portVars, iopsVars,
                              t_ram, histVars>>
          ELSE
          \E nd \in NetDevOutputs, d \in ElapsedFor(cfg.COLLECT_EVERY_X_SECONDS) :
          LET mem_total == m[1]
              ram == 100 - ((a_ram * 100) \div mem_total)
              end_time == now + d
              td == end_time - start_time
              nst == TickNics(network_interfaces_array, nd, td,
                              [a_rx |-> a_rx, a_tx |-> a_tx,
                               t_rx |-> t_rx, t_tx |-> t_tx, err |-> ""])
              watch == cfg.CONNECTION_PORTS # <<>>
          IN
          /\ t_ram' = t_ram + ram
          /\ net_dev' = nd
          /\ now' = end_time
          /\ time_diff' = td
          /\ t_time_diff' = t_time_diff + td
          /\ start_time' = NextStartTime(end_time)
          /\ last_read' = end_time
          /\ a_rx' = nst.a_rx /\ a_tx' = nst.a_tx
          /\ t_rx' = nst.t_rx /\ t_tx' = nst.t_tx
          /\ UNCHANGED <<run, cfg, run_times, M, network_interfaces_array,
                         iopsVars>>
          /\ IF nst.err # ""
             THEN /\ Crash(nst.err, 258)
                  /\ UNCHANGED <<portVars, ticks, rolled, port_ticks>>
             ELSE
             \E ns \in IF watch THEN NetstatOutputs ELSE {netstat_output} :
             LET MM == ReadMinute(now')
             IN
             /\ netstat_output' = ns
             /\ connections' = IF watch
                               THEN TickConnections(cfg.CONNECTION_PORTS, ns, connections)
                               ELSE connections
             /\ port_ticks' = [p \in DOMAIN port_ticks |->
                                 port_ticks[p] + CountPort(ns, p)]
             /\ ticks' = ticks + 1
             /\ rolled' = IF rolled = 0 /\ MM # M THEN X' ELSE rolled
             /\ pc' = IF MinuteChanged(MM) \/ X' = run_times
                      THEN "closed" ELSE "loop"
             /\ UNCHANGED errVars

\* ------------------------------------------------------------ after the loop
Goto(p) ==
    /\ pc' = p
    /\ UNCHANGED errVars

\* The mount point records of iops_str (lines 284-291).
RECURSIVE IopsStr(_, _, _)
IopsStr(disks, lines, st) ==
    IF disks = <<>> \/ st.err # "" THEN st
    ELSE LET mp == Head(disks).mount_point
             i == FirstLine(lines, Head(disks).disk)
             nx == IF i = 0 THEN st
                   ELSE IF mp \notin DOMAIN iops_read
                        THEN [st EXCEPT !.err = "KeyError"]
                   ELSE IF t_time_diff = 0
                        THEN [st EXCEPT !.err = "ZeroDivisionError"]
                   ELSE [st EXCEPT !.str = Append(@,
                          [mount_point |-> mp,
                           read |-> TruncDiv((lines[i].rd - iops_read[mp]) * 512,
                                             t_time_diff),
                           write |-> TruncDiv((lines[i].wr - iops_write[mp]) * 512,
                                              t_time_diff)])]
         IN IopsStr(Tail(disks), lines, nx)

\* Lines 281-293: the whole-window disk rates.
DiskIops ==
    /\ pc = "closed"
    /\ \E ds \in DiskstatsOutputs :
        LET r == IopsStr(v_disks, ds, [str |-> <<>>, err |-> ""])
        IN /\ iops_str' = r.str
           /\ IF r.err # "" THEN Crash(r.err, 288) ELSE Goto("averages")
    /\ UNCHANGED <<clockVars, loopVars, avgVars, snapVars, nics_str, conn_str,
                   sendVars, running_proc_file, runsVars>>

\* A Python float that is the quotient of two integers.
Quotient(n, d) == [num |-> n, den |-> d]

\* An average that nothing has assigned yet.
Unset == Quotient(0, 0)

\* The configured number of iterations as the divisor.
ConfiguredDivisor == run_times

\* The X every average is divided by: the loop variable, as the loop left it.
TickDivisor == X

\* Lines 346-356: cpu_avg, iow_avg, ram_avg.
Averages ==
    /\ pc = "averages"
    /\ IF X = 0
       THEN \* the loop body never ran, X is not bound
            /\ Crash("NameError", 347)
            /\ UNCHANGED avgVars
       ELSE /\ cpu_avg' = Quotient(t_cpu, TickDivisor)
            /\ iow_avg' = Quotient(t_iow, TickDivisor)
            /\ ram_avg' = Quotient(t_ram, TickDivisor)
            /\ Goto("swap")
    /\ UNCHANGED <<clockVars, loopVars, snapVars, strVars, sendVars,
                   running_proc_file, runsVars>>

\* ---------------------------------------------------- snapshot collectors
Collectors == {"swap", "disks", "inodes", "services", "raid", "health", "procs"}

Called(c) == calls' = [calls EXCEPT ![c] = @ + 1]

\* stdout of "grep ^SwapTotal: /proc/meminfo | awk '{print $2}'" and of the
\* same for SwapFree.
SwapTotalOutputs == { <<>>, <<0>>, <<1000>> }
SwapFreeOutputs == { <<500>> }

\* Lines 358-366: swap size and usage.
SwapUsage ==
    /\ pc = "swap"
    /\ Called("swap")
    /\ \E swap_size \in SwapTotalOutputs, swap_free \in SwapFreeOutputs :
        IF swap_size = <<>>
        THEN \* int("")
             /\ Crash("ValueError", 363)
             /\ UNCHANGED swap_usage
        ELSE /\ swap_usage' = IF swap_size[1] > 0
                              THEN 100 - ((swap_free[1] * 100) \div swap_size[1])
                              ELSE 0
             /\ Goto("disks")
    /\ UNCHANGED <<clockVars, loopVars, avgVars, disks_data, diski_data,
                   service_status_string, raid_str, dh_str, rps1, rps2,
                   strVars, sendVars, running_proc_file, runsVars>>

\* stdout of the "df -PB1 | awk ..." and "df -i | awk ..." pipelines: one
\* "mount,total,used,available;" token per filesystem.
DfOutputs == { <<>>, <<"/,1000,400,600;">> }

\* Lines 368-370: all disks usage.
DiskUsage ==
    /\ pc = "disks"
    /\ Called("disks")
    /\ \E df_output \in DfOutputs : disks_data' = df_output
    /\ Goto("inodes")
    /\ UNCHANGED <<clockVars, loopVars, avgVars, swap_usage, diski_data,
                   service_status_string, raid_str, dh_str, rps1, rps2,
                   strVars, sendVars, running_proc_file, runsVars>>

\* Lines 372-374: all disks inodes.
InodeUsage ==
    /\ pc = "inodes"
    /\ Called("inodes")
    /\ \E dfi_output \in DfOutputs : diski_data' = dfi_output
    /\ Goto("nics")
    /\ UNCHANGED <<clockVars, loopVars, avgVars, swap_usage, disks_data,
                   service_status_string, raid_str, dh_str, rps1, rps2,
                   strVars, sendVars, running_proc_file, runsVars>>

\* The interface records of nics_str (lines 378-381).
RECURSIVE NicsStr(_, _)
NicsStr(nics, st) ==
    IF nics = <<>> \/ st.err # "" THEN st
    ELSE LET nic == Head(nics)
             nx == IF nic \notin DOMAIN t_rx
                   THEN [st EXCEPT !.err = "KeyError"]
                   ELSE [st EXCEPT !.str = Append(@,
                          [nic |-> nic,
                           rx_avg |-> TruncDiv(t_rx[nic], TickDivisor),
                           tx_avg |-> TruncDiv(t_tx[nic], TickDivisor)])]
         IN NicsStr(Tail(nics), nx)

\* Lines 376-383: total network usage.
NicsAssembly ==
    /\ pc = "nics"
    /\ LET r == NicsStr(network_interfaces_array, [str |-> <<>>, err |-> ""])
       IN /\ nics_str' = r.str
          /\ IF r.err # "" THEN Crash(r.err, 379) ELSE Goto("conn")
    /\ UNCHANGED <<clockVars, loopVars, avgVars, snapVars, iops_str, conn_str,
                   sendVars, running_proc_file, runsVars>>

\* The port records of conn_str (lines 388-390).
RECURSIVE ConnStr(_)
ConnStr(ports) ==
    IF ports = <<>> THEN <<>>
    ELSE << [c_port |-> Head(ports),
             con_avg |-> TruncDiv(connections[Head(ports)], TickDivisor)] >>
         \o ConnStr(Tail(ports))

\* Lines 385-392: port connections.
ConnAssembly ==
    /\ pc = "conn"
    /\ conn_str' = IF cfg.CONNECTION_PORTS # <<>>
                   THEN ConnStr(cfg.CONNECTION_PORTS) ELSE <<>>
    /\ Goto("services")
    /\ UNCHANGED <<clockVars, loopVars, avgVars, snapVars, iops_str, nics_str,
                   sendVars, running_proc_file, runsVars>>

\* What one call of service_status meets: the stdout of the "ps -ef | grep"
\* count, whether a systemctl binary exists, and how "systemctl is-active"
\* ends: return code 0, return code 3, or no return within the 10 seconds.
ServiceProbes ==
    [ps_output : { <<>>, <<0>>, <<2>> }, systemctl : BOOLEAN,
     is_active : {"0", "3", "timeout"}]

\* service_status(service_name): status 1 or 0, or the exception it raises.
service_status(service_name, probe) ==
    IF probe.ps_output # <<>> /\ probe.ps_output[1] > 0
    THEN [service |-> service_name, status |-> 1, err |-> ""]
    ELSE IF probe.systemctl
         THEN IF probe.is_active = "timeout"
              THEN [service |-> service_name, status |-> 0,
                    err |-> "TimeoutExpired"]
              ELSE IF probe.is_active = "0"
                   THEN [service |-> service_name, status |-> 1, err |-> ""]
                   ELSE [service |-> service_name, status |-> 0, err |-> ""]
         ELSE [service |-> service_name, status |-> 0, err |-> ""]

\* service_status_string over the configured services (lines 398-399).
RECURSIVE ServicesStr(_, _, _)
ServicesStr(services, probes, st) ==
    IF services = <<>> \/ st.err # "" THEN st
    ELSE LET r == service_status(Head(services), Head(probes))
             nx == IF r.err # "" THEN [st EXCEPT !.err = r.err]
                   ELSE [st EXCEPT !.str = Append(@,
                          [service |-> r.service, status |-> r.status])]
         IN ServicesStr(Tail(services), Tail(probes), nx)

\* Lines 394-399: check services.
CheckServices ==
    /\ pc = "services"
    /\ IF cfg.CHECK_SERVICES # <<>>
       THEN /\ Called("services")
            /\ \E probes \in [1..Len(cfg.CHECK_SERVICES) -> ServiceProbes] :
                LET r == ServicesStr(cfg.CHECK_SERVICES, probes,
                                     [str |-> <<>>, err |-> ""])
                IN /\ service_status_string' = r.str
                   /\ IF r.err # "" THEN Crash(r.err, 111) ELSE Goto("raid")
       ELSE /\ UNCHANGED <<service_status_string, calls>>
            /\ Goto("raid")
    /\ UNCHANGED <<clockVars, loopVars, avgVars, swap_usage, disks_data,
                   diski_data, raid_str, dh_str, rps1, rps2,
                   strVars, sendVars, running_proc_file, runsVars>>

\* What the software RAID check meets: the devices "df" lists, each with the
\* stdout of "mdadm -D" on it and its mount point.
RaidOutputs ==
    { <<>>,
      << [device |-> "/dev/sda1", mdadm_output |-> <<>>, mnt |-> "/"],
         [device |-> "/dev/md0", mdadm_output |-> <<"State : clean">>,
          mnt |-> "/volume1"] >> }

\* raid_str over the devices (lines 405-410).
RECURSIVE RaidStr(_)
RaidStr(devices) ==
    IF devices = <<>> THEN <<>>
    ELSE (IF Head(devices).mdadm_output # <<>>
          THEN << [mnt |-> Head(devices).mnt, device |-> Head(devices).device,
                   mdadm_output |-> Head(devices).mdadm_output] >>
          ELSE <<>>)
         \o RaidStr(Tail(devices))

\* Lines 401-412: check software RAID.
CheckSoftRaid ==
    /\ pc = "raid"
    /\ IF cfg.CHECK_SOFT_RAID > 0
       THEN /\ Called("raid")
            /\ \E devices \in RaidOutputs : raid_str' = RaidStr(devices)
       ELSE UNCHANGED <<raid_str, calls>>
    /\ Goto("health")
    /\ UNCHANGED <<clockVars, loopVars, avgVars, swap_usage, disks_data,
                   diski_data, service_status_string, dh_str, rps1, rps2,
                   strVars, sendVars, running_proc_file, runsVars>>

\* What the drive health check meets: which tools exist, the disks "lsblk"
\* lists (each with whether "smartctl -A" shows attributes and whether
\* "nvme smart-log" shows an NVME log), and the megaraid identifiers
\* "smartctl --scan" lists (each with whether "smartctl -A -d id" shows
\* attributes).
DriveProbes ==
    { [smartctl |-> FALSE, nvme |-> FALSE, lsblk |-> <<>>, megaraid |-> <<>>],
      [smartctl |-> TRUE, nvme |-> FALSE,
       lsblk |-> << [disk |-> "sda", attr |-> FALSE, nvme_log |-> FALSE],
                    [disk |-> "sdb", attr |-> TRUE, nvme_log |-> FALSE] >>,
       megaraid |-> << [id |-> "megaraid,0", attr |-> TRUE] >>],
      [smartctl |-> TRUE, nvme |-> TRUE,
       lsblk |-> << [disk |-> "nvme0n1", attr |-> FALSE, nvme_log |-> TRUE] >>,
       megaraid |-> <<>>] }

\* The records of one disk behind a hardware RAID controller (lines 431-438).
RECURSIVE MegaraidStr(_, _, _)
MegaraidStr(disk, ids, megaraid_n) ==
    IF ids = <<>> THEN <<>>
    ELSE IF Head(ids).attr
         THEN << [kind |-> 1, disk |-> disk, n |-> megaraid_n + 1] >>
              \o MegaraidStr(disk, Tail(ids), megaraid_n + 1)
         ELSE MegaraidStr(disk, Tail(ids), megaraid_n)

\* The S.M.A.R.T. records (lines 420-439); the first disk that shows no
\* attributes on a host with megaraid identifiers ends the loop.
RECURSIVE SmartStr(_, _)
SmartStr(disks, megaraid) ==
    IF disks = <<>> THEN <<>>
    ELSE IF Head(disks).attr
         THEN << [kind |-> 1, disk |-> Head(disks).disk, n |-> 0] >>
              \o SmartStr(Tail(disks), megaraid)
         ELSE IF megaraid # <<>>
              THEN MegaraidStr(Head(disks).disk, megaraid, 0)
              ELSE SmartStr(Tail(disks), megaraid)

\* The NVMe records (lines 444-452).
RECURSIVE NvmeStr(_)
NvmeStr(disks) ==
    IF disks = <<>> THEN <<>>
    ELSE (IF Head(disks).nvme_log
          THEN << [kind |-> 2, disk |-> Head(disks).disk, n |-> 0] >>
          ELSE <<>>)
         \o NvmeStr(Tail(disks))

\* Lines 414-454: check drive health.
CheckDriveHealth ==
    /\ pc = "health"
    /\ IF cfg.CHECK_DRIVE_HEALTH > 0
       THEN /\ Called("health")
            /\ \E probe \in DriveProbes :
                dh_str' = (IF probe.smartctl
                           THEN SmartStr(probe.lsblk, probe.megaraid) ELSE <<>>)
                          \o (IF probe.nvme THEN NvmeStr(probe.lsblk) ELSE <<>>)
       ELSE UNCHANGED <<dh_str, calls>>
    /\ Goto("procs")
    /\ UNCHANGED <<clockVars, loopVars, avgVars, swap_usage, disks_data,
                   diski_data, service_status_string, raid_str, rps1, rps2,
                   strVars, sendVars, running_proc_file, runsVars>>

\* ------------------------------------------------------- running processes
\* stdout of "ps -Ao pid,ppid,... --no-headers" after strip(), by character.
PsOutputs == { <<>>, <<"1", " ", "s", "h">> }

Whitespace == {" ", "\n", "\t"}

\* str.strip()
RECURSIVE Strip(_)
Strip(s) ==
    IF s = <<>> THEN s
    ELSE IF Head(s) \in Whitespace THEN Strip(Tail(s))
    ELSE IF s[Len(s)] \in Whitespace THEN Strip(SubSeq(s, 1, Len(s) - 1))
    ELSE s

\* The base64 character that stands for a character of the compressed data.
Base64Of(c) ==
    CASE c = "1" -> "M"
      [] c = " " -> "+"
      [] c = "s" -> "/"
      [] c = "h" -> "g"
      [] OTHER -> "A"

\* base64_prep(s): '+' and '/' made safe for url encoding.
base64_prep(s) ==
    [i \in 1..Len(s) |-> IF s[i] = "+" THEN "%2B"
                         ELSE IF s[i] = "/" THEN "%2F" ELSE s[i]]

\* compress_and_encode(data): the gzip header, which every gzip stream has
\* and base64 renders as H4sI, then the data.
compress_and_encode(data) ==
    base64_prep(<<"H", "4", "s", "I">> \o [i \in 1..Len(data) |-> Base64Of(data[i])])

\* open(path, 'w') and write(text)
Written(text) == [state |-> "written", text |-> text]

\* The saved snapshot never found.
SnapshotNotFound(file) == <<>>

\* The snapshot the last run saved, as this run reads it (lines 462-464).
PreviousSnapshot(file) ==
    IF file.state = "written" THEN Strip(file.text) ELSE <<>>

\* Lines 456-472: running processes.
RunningProcesses ==
    /\ pc = "procs"
    /\ IF cfg.RUNNING_PROCESSES > 0
       THEN /\ Called("procs")
            /\ rps1' = PreviousSnapshot(running_proc_file)
            /\ \E rps2_output \in PsOutputs :
                rps2' = compress_and_encode(rps2_output)
            /\ running_proc_file' = Written(rps2')
       ELSE UNCHANGED <<rps1, rps2, calls, running_proc_file>>
    /\ Goto("save")
    /\ UNCHANGED <<clockVars, loopVars, avgVars, swap_usage, disks_data,
                   diski_data, service_status_string, raid_str, dh_str,
                   strVars, sendVars, runsVars>>

\* ------------------------------------------------------------ save and post
\* The report fields of line 475 that the run computed, before their
\* encoding; the host facts of lines 295-344 are left out.
data ==
    [cpu_avg |-> cpu_avg, iow_avg |-> iow_avg, ram_avg |-> ram_avg,
     swap_usage |-> swap_usage, disks |-> disks_data, nics |-> nics_str,
     services |-> service_status_string, raid |-> raid_str,
     drive_health |-> dh_str, prev_procs |-> rps1, curr_procs |-> rps2,
     iops |-> iops_str, connections |-> conn_str, inodes |-> diski_data]

\* The agent log left as it was.
LogNotWritten(text) == agent_log_file

\* The agent log after lines 480-481.
WriteLog(text) == Written(text)

\* Lines 474-481: prepare data, save data to file.
SaveData ==
    /\ pc = "save"
    /\ post_data' = [v |-> VERSION, s |-> SID, d |-> data]
    /\ agent_log_file' = WriteLog(post_data')
    /\ Goto("post")
    /\ UNCHANGED <<clockVars, loopVars, avgVars, snapVars, strVars, post_bytes,
                   received, running_proc_file, runsVars>>

\* How urlopen ends: a response, or an exception.
PostOutcomes == {"200", "URLError"}

\* Lines 483-501: post data; any exception is swallowed.
PostData ==
    /\ pc = "post"
    /\ \E outcome \in PostOutcomes :
        IF agent_log_file.state # "written"
        THEN \* open(agent_log_file, 'rb') raises, nothing is sent
             UNCHANGED <<post_bytes, received>>
        ELSE /\ post_bytes' = agent_log_file.text
             /\ received' = IF outcome = "200" THEN post_bytes' ELSE received
    /\ Goto("done")
    /\ UNCHANGED <<clockVars, loopVars, avgVars, snapVars, strVars, post_data,
                   agent_log_file, running_proc_file, runsVars>>

\* The variables of a process that has just started: nothing is assigned yet.
Memory ==
    /\ err = "" /\ err_line = 0
    /\ run_times = 0 /\ start_time = 0 /\ t_time_diff = 0 /\ time_diff = 0
    /\ M = 0
    /\ network_interfaces_array = <<>> /\ net_dev = <<>>
    /\ a_rx = EmptyDict /\ a_tx = EmptyDict
    /\ t_rx = EmptyDict /\ t_tx = EmptyDict
    /\ connections = EmptyDict /\ netstat_output = <<>>
    /\ iops_read = EmptyDict /\ iops_write = EmptyDict
    /\ t_cpu = 0 /\ t_iow = 0 /\ t_ram = 0 /\ X = 0 /\ vmstat_parts = <<>>
    /\ ticks = 0 /\ rolled = 0 /\ last_read = 0
    /\ port_ticks = EmptyDict
    /\ iops_str = <<>> /\ nics_str = <<>> /\ conn_str = <<>>
    /\ cpu_avg = Unset /\ iow_avg = Unset /\ ram_avg = Unset
    /\ swap_usage = 0 /\ disks_data = <<>> /\ diski_data = <<>>
    /\ service_status_string = <<>> /\ raid_str = <<>> /\ dh_str = <<>>
    /\ rps1 = <<>> /\ rps2 = <<>>
    /\ calls = [c \in Collectors |-> 0]
    /\ post_data = <<>> /\ post_bytes = <<>> /\ received = <<>>

\* The process is gone and a new one starts: what Memory says, of the next state.
FreshMemory ==
    /\ err' = "" /\ err_line' = 0
    /\ run_times' = 0 /\ start_time' = 0 /\ t_time_diff' = 0 /\ time_diff' = 0
    /\ M' = 0
    /\ network_interfaces_array' = <<>> /\ net_dev' = <<>>
    /\ a_rx' = EmptyDict /\ a_tx' = EmptyDict
    /\ t_rx' = EmptyDict /\ t_tx' = EmptyDict
    /\ connections' = EmptyDict /\ netstat_output' = <<>>
    /\ iops_read' = EmptyDict /\ iops_write' = EmptyDict
    /\ t_cpu' = 0 /\ t_iow' = 0 /\ t_ram' = 0 /\ X' = 0 /\ vmstat_parts' = <<>>
    /\ ticks' = 0 /\ rolled' = 0 /\ last_read' = 0
    /\ port_ticks' = EmptyDict
    /\ iops_str' = <<>> /\ nics_str' = <<>> /\ conn_str' = <<>>
    /\ cpu_avg' = Unset /\ iow_avg' = Unset /\ ram_avg' = Unset
    /\ swap_usage' = 0 /\ disks_data' = <<>> /\ diski_data' = <<>>
    /\ service_status_string' = <<>> /\ raid_str' = <<>> /\ dh_str' = <<>>
    /\ rps1' = <<>> /\ rps2' = <<>>
    /\ calls' = [c \in Collectors |-> 0]
    /\ post_data' = <<>> /\ post_bytes' = <<>> /\ received' = <<>>

\* The run is over, by the end of the script or by an uncaught exception, and
\* cron starts the script again.  What an earlier run left in the agent log is
\* kept only as the fact that it is an earlier run's report: the script
\* truncates the file before it reads it.
NextRun ==
    /\ pc \in {"done", "crashed"}
    /\ run < MaxRuns
    /\ run' = run + 1
    /\ \E t \in StartClocks : now' = t
    /\ pc' = "idle"
    /\ FreshMemory
    /\ agent_log_file' = IF agent_log_file.state = "absent"
                         THEN agent_log_file ELSE [state |-> "earlier"]
    /\ completed' = IF pc = "done" THEN completed + 1 ELSE completed
    /\ handed_on' = IF pc = "done" THEN rps2 ELSE handed_on
    /\ UNCHANGED <<cfg, running_proc_file>>

Files ==
    /\ running_proc_file = [state |-> "absent"]
    /\ agent_log_file = [state |-> "absent"]
    /\ completed = 0 /\ handed_on = <<>>

\* A fresh installation, about to run once.
Init ==
    /\ cfg \in SettingsChoices
    /\ now \in StartClocks
    /\ run = 1
    /\ pc = "idle"
    /\ Memory
    /\ Files

\* A fresh installation with process recording on, run by cron minute after
\* minute.
InitRuns ==
    /\ cfg = FullSettings
    /\ now = 59 * 60 + 57
    /\ run = 1
    /\ pc = "idle"
    /\ Memory
    /\ Files

Next ==
    \/ StartRun
    \/ Tick
    \/ DiskIops
    \/ Averages
    \/ SwapUsage
    \/ DiskUsage
    \/ InodeUsage
    \/ NicsAssembly
    \/ ConnAssembly
    \/ CheckServices
    \/ CheckSoftRaid
    \/ CheckDriveHealth
    \/ RunningProcesses
    \/ SaveData
    \/ PostData

NextRuns ==
    \/ Next
    \/ NextRun

\* One run of the script.
Spec == Init /\ [][Next]_vars

\* Consecutive runs of the script.
SpecRuns == InitRuns /\ [][NextRuns]_vars

\* ------------------------------------------------------------- properties
\* Positions of a run whose sampling loop has ended without an exception.
PastLoop ==
    {"closed", "averages", "swap", "disks", "inodes", "nics", "conn",
     "services", "raid", "health", "procs", "save", "post", "done"}

LoopOver == pc \in PastLoop \/ (pc = "crashed" /\ err_line > 279)

\* Positions at which cpu_avg, iow_avg and ram_avg are computed.
PastAverages == PastLoop \ {"closed", "averages"}

\* Positions at which nics_str and conn_str are assembled.
PastNics == PastAverages \ {"swap", "disks", "inodes", "nics"}
PastConn == PastNics \ {"conn"}

Monitored == {network_interfaces_array[k] : k \in 1..Len(network_interfaces_array)}

\* C1: once the loop has ended, it has recorded floor(RUNTIME / interval)
\* iterations if the minute never differed from the one read at the start, and
\* otherwise exactly as many as the iteration in which it first differed.
C1_TicksUnlessRollover ==
    LoopOver =>
        /\ run_times = cfg.RUNTIME \div cfg.COLLECT_EVERY_X_SECONDS
        /\ ticks = IF rolled # 0 THEN rolled ELSE run_times

\* C2: every averaged value of the report is its running sum over the number
\* of iterations that actually ran (the interface averages truncated to an
\* integer), whether the loop ran out of iterations or ended on a rollover.
C2_AveragesOverActualTicks ==
    /\ pc \in PastAverages =>
        /\ ticks >= 1
        /\ cpu_avg = Quotient(t_cpu, ticks)
        /\ iow_avg = Quotient(t_iow, ticks)
        /\ ram_avg = Quotient(t_ram, ticks)
    /\ pc \in PastNics =>
        /\ Len(nics_str) = Len(network_interfaces_array)
        /\ \A k \in 1..Len(nics_str) :
            LET nic == network_interfaces_array[k]
            IN /\ nics_str[k].nic = nic
               /\ nics_str[k].rx_avg = TruncDiv(t_rx[nic], ticks)
               /\ nics_str[k].tx_avg = TruncDiv(t_tx[nic], ticks)

\* C2 witness: a report assembled after a rollover ended the loop before the
\* configured number of iterations, with traffic on an interface.
C2_Witness ==
    /\ pc = "done"
    /\ ticks >= 1 /\ ticks < run_times
    /\ \E k \in 1..Len(nics_str) : nics_str[k].rx_avg # 0

\* C3: an iteration that runs to its end adds, for every monitored interface
\* that /proc/net/dev lists, (current counter - previous counter) / elapsed,
\* truncated toward zero, to the interface's running sums, elapsed being the
\* wall-clock time since the previous read (which is not zero), and keeps the
\* current counter as the next previous one.
C3_PerTickRate ==
    [][(pc = "loop" /\ pc' \in {"loop", "closed"}) =>
        \A nic \in Monitored :
            LET i == FirstLine(net_dev', nic)
                elapsed == now' - last_read
            IN i # 0 =>
                /\ elapsed # 0
                /\ nic \in DOMAIN a_rx
                /\ t_rx'[nic] = t_rx[nic]
                                + TruncDiv(net_dev'[i].rx - a_rx[nic], elapsed)
                /\ t_tx'[nic] = t_tx[nic]
                                + TruncDiv(net_dev'[i].tx - a_tx[nic], elapsed)
                /\ a_rx'[nic] = net_dev'[i].rx
                /\ a_tx'[nic] = net_dev'[i].tx]_vars

\* C3 witness: counters 1000, 1500, 1500 read 3 seconds apart gave the rates
\* 166 and 0, and the report carries their average over 2 iterations, 83.
C3_Witness ==
    /\ pc = "done"
    /\ ticks = 2 /\ t_time_diff = 6
    /\ "eth0" \in DOMAIN t_rx
    /\ t_rx["eth0"] = 166 /\ a_rx["eth0"] = 1500
    /\ nics_str[1].rx_avg = 83

\* C4: an iteration whose vmstat read returns nothing adds nothing to the
\* running sums, counts as an iteration, and leaves the run going.
C4_BadReadingCountsZero ==
    [][(pc = "loop" /\ vmstat_parts' = <<>>) =>
        /\ pc' \in {"loop", "closed"}
        /\ ticks' = ticks + 1
        /\ t_cpu' = t_cpu /\ t_iow' = t_iow /\ t_ram' = t_ram]_vars

\* C5: from the moment the post is about to be attempted, the agent log holds
\* the report of this run; what is read for sending, and whatever the
\* collector receives, is the content of that file; and the run ends without
\* an exception whether or not the send succeeds.
C5_SavedBeforeSent ==
    /\ pc \in {"post", "done"} =>
        /\ post_data = [v |-> VERSION, s |-> SID, d |-> data]
        /\ agent_log_file = Written(post_data)
    /\ pc = "done" =>
        /\ err = ""
        /\ post_bytes = agent_log_file.text
        /\ received \in {<<>>, agent_log_file.text}
    /\ pc # "done" => post_bytes = <<>> /\ received = <<>>

\* C5 witness: the send failed, the run ended normally and the log holds the
\* report.
C5_Witness ==
    /\ pc = "done"
    /\ received = <<>>
    /\ post_bytes = post_data
    /\ agent_log_file = Written(post_data)

\* Source lines of the snapshot collectors, service_status included.
CollectorLines == (101..121) \cup (358..374) \cup (394..472)

\* C6: no snapshot collector runs twice in a run, and no failure inside a
\* collector ends the run.
C6_CollectorFailureIsolated ==
    /\ \A c \in Collectors : calls[c] <= 1
    /\ ~(pc = "crashed" /\ err_line \in CollectorLines)

\* C7: a completed run with process recording on has emitted, as prev_procs,
\* the curr_procs of the latest completed run before it (nothing if there is
\* none), has emitted its own snapshot as curr_procs, and has left that
\* snapshot in running_proc.txt.
C7_ProcessHandoff ==
    (pc = "done" /\ cfg.RUNNING_PROCESSES > 0) =>
        /\ post_data.d.prev_procs = handed_on
        /\ completed = 0 => post_data.d.prev_procs = <<>>
        /\ post_data.d.curr_procs = rps2
        /\ rps2 # <<>>
        /\ running_proc_file = Written(rps2)

\* C7 witness: a second completed run that emits the first run's snapshot
\* next to a different one of its own.
C7_Witness ==
    /\ pc = "done"
    /\ run = 2 /\ completed = 1
    /\ post_data.d.prev_procs = handed_on
    /\ post_data.d.prev_procs # <<>>
    /\ post_data.d.prev_procs # post_data.d.curr_procs

\* C8: when the loop has ended, each port's running sum is the sum of the
\* counts taken in its iterations, and the reported value is that sum over
\* the iterations that ran, truncated.
C8_PortSumOverTicks ==
    /\ LoopOver =>
        \A p \in DOMAIN connections : connections[p] = port_ticks[p]
    /\ pc \in PastConn =>
        \A k \in 1..Len(conn_str) :
            conn_str[k].con_avg = TruncDiv(port_ticks[conn_str[k].c_port], ticks)

\* C9: an iteration that measures an elapsed time of zero or less skips or
\* zero-fills its rates instead of dividing, and so does the whole-window
\* IOPS rate when the elapsed times sum to zero or less.
C9_ElapsedPositiveEnforced ==
    [][/\ (/\ pc = "loop"
           /\ ~(pc' = "crashed" /\ err_line' \in {232, 241})
           /\ time_diff' <= 0)
          => (pc' # "crashed" /\ t_rx' = t_rx /\ t_tx' = t_tx)
       /\ (pc = "closed" /\ t_time_diff <= 0) => pc' # "crashed"]_vars

\* C10: from the start of the window on, every monitored interface has its
\* previous counters and its running sums, no lookup of them fails, and the
\* assembled nics field has one record per monitored interface.
C10_InterfacesOwnTheirSums ==
    /\ pc # "idle" =>
        \A nic \in Monitored :
            nic \in (DOMAIN a_rx) \cap (DOMAIN a_tx)
                    \cap (DOMAIN t_rx) \cap (DOMAIN t_tx)
    /\ err # "KeyError"
    /\ pc \in PastNics => Len(nics_str) = Len(network_interfaces_array)
====
